---- MODULE Spec2Model ----
(***************************************************************************)
(* Model of the research workflow of ResearchOrchestrator                  *)
(* (intelligent_research_orchestrator_tavily.py): one run of research()    *)
(* through the compiled graph planner -> researcher -> analyzer ->         *)
(* {researcher, fact_checker, writer} -> writer -> visualizer -> END.      *)
(*                                                                         *)
(* A generation reply is a sequence of tokens: "F" is a ``` fence, "json"  *)
(* the word json, "txt" any other prose, "obj" a well-formed JSON text     *)
(* whose value is given by the reply's payload.                            *)
(***************************************************************************)
EXTENDS Integers, Sequences, FiniteSets, TLC

\* ---- bounds of the model ------------------------------------------------
MaxQueries == 4
MaxHits == 2
MaxRuns == 2

\* ---- constants of the program -------------------------------------------
MaxIterations == 3
QueryLimit == 3
LowConfidence == 70
HighConfidence == 80
MissingConfidence == 70
UnparsedConfidence == 75
MaxConfidence == 100

VARIABLES
    tavily_client,      \* TRUE: a TavilyClient was built, FALSE: None (mock mode)
    pc,                 \* node the engine runs next, "END", "returned" or "raised"
    search_results,
    analyzed_data,
    fact_checks,
    report,
    visual_summary,
    messages,
    next_agent,
    iteration,
    confidence_score,
    result,             \* <<>> while research() has returned nothing, else <<Result>>
    failure,            \* cause of the exception that left research(), or "none"
    trace,              \* tags of the node invocations completed so far, in order
    every_low,          \* every analyzer invocation so far parsed a confidence below 70
    io,                 \* inputs and local values of the latest node invocation
    pending_calls,      \* research() calls the client has still to start on the orchestrator
    active,             \* the research() call the variables above belong to: 1 or 2
    parked,             \* <<>>, or <<frame>>: the variables of the other call
    session_state       \* st.session_state of the web session (app.py), or <<>>

state == <<search_results, analyzed_data, fact_checks, report, visual_summary,
           messages, next_agent, iteration, confidence_score>>
vars == <<tavily_client, pc, search_results, analyzed_data, fact_checks,
          report, visual_summary, messages, next_agent, iteration,
          confidence_score, result, failure, trace, every_low, io,
          pending_calls, active, parked, session_state>>

\* ---- values ---------------------------------------------------------------
query == "q0"
QueryNames == <<"q1", "q2", "q3", "q4", "q5", "q6">>
EmptyDict == [k \in {} |-> 0]
Num(v) == [num |-> TRUE, val |-> v]
NotANumber == [num |-> FALSE, val |-> 0]
ConfidenceValues == {50, 90, 150}
ReportTexts == {"", "text"}

Min(a, b) == IF a < b THEN a ELSE b
Count(s, tag) == Cardinality({i \in 1..Len(s) : s[i].agent = tag})

\* ---- generation replies ---------------------------------------------------
\* replies that carry a JSON text: bare, in a ```json block between prose,
\* after a line of prose; and a reply of prose only
JsonShapes ==
    { <<"obj">>,
      <<"txt", "F", "json", "obj", "F", "txt">>,
      <<"txt", "obj">> }
ProseShapes == { <<"txt">> }

\* lengths of the search_queries list of a reply: empty, below the limit of
\* 3 queries, above it
QueryCounts == {0, 2, MaxQueries}

SearchQueriesFields ==
    {[tag |-> "absent", list |-> <<>>], [tag |-> "unsized", list |-> <<>>]}
    \cup {[tag |-> "list", list |-> SubSeq(QueryNames, 1, n)] : n \in QueryCounts}

NoSearchPayload ==
    [kind |-> "nondict", search_queries |-> [tag |-> "absent", list |-> <<>>],
     reasoning |-> "str"]
SearchPayloads ==
    {NoSearchPayload}
    \cup {[kind |-> "dict", search_queries |-> sq, reasoning |-> r] :
            sq \in SearchQueriesFields, r \in {"str", "unsliceable"}}

ConfidenceFields ==
    {[tag |-> "absent", val |-> 0], [tag |-> "nonnum", val |-> 0]}
    \cup {[tag |-> "num", val |-> v] : v \in ConfidenceValues}

NoAnalysisPayload ==
    [kind |-> "nondict", confidence |-> [tag |-> "absent", val |-> 0],
     needs_more_research |-> "absent"]
AnalysisPayloads ==
    {NoAnalysisPayload}
    \cup {[kind |-> "dict", confidence |-> c, needs_more_research |-> n] :
            c \in ConfidenceFields, n \in {"absent", "true", "false"}}

SearchReplies ==
    [toks : JsonShapes, payload : SearchPayloads]
    \cup [toks : ProseShapes, payload : {NoSearchPayload}]
AnalysisReplies ==
    [toks : JsonShapes, payload : AnalysisPayloads]
    \cup [toks : ProseShapes, payload : {NoAnalysisPayload}]

\* a second research() call on the orchestrator is explored with one reply per
\* route through the graph: two queries; confidence 50 (more research, then
\* fact check) or 90 (write)
two_calls == pending_calls > 0 \/ parked # <<>>
search_replies ==
    IF two_calls
    THEN {r \in SearchReplies :
            /\ r.toks = <<"obj">>
            /\ r.payload.kind = "dict"
            /\ r.payload.reasoning = "str"
            /\ r.payload.search_queries.tag = "list"
            /\ Len(r.payload.search_queries.list) = 2}
    ELSE SearchReplies
analysis_replies ==
    IF two_calls
    THEN {r \in AnalysisReplies :
            /\ r.toks = <<"obj">>
            /\ r.payload.kind = "dict"
            /\ r.payload.needs_more_research = "false"
            /\ r.payload.confidence \in {[tag |-> "num", val |-> 50],
                                         [tag |-> "num", val |-> 90]}}
    ELSE AnalysisReplies

\* ---- extraction of the JSON text from a reply ---------------------------
IsJsonFence(t, i) == i + 1 <= Len(t) /\ t[i] = "F" /\ t[i + 1] = "json"
HasJsonFence(t) == \E i \in 1..Len(t) : IsJsonFence(t, i)
HasFence(t) == \E i \in 1..Len(t) : t[i] = "F"
FirstJsonFence(t) ==
    CHOOSE i \in 1..Len(t) : IsJsonFence(t, i) /\ \A j \in 1..(i - 1) : ~IsJsonFence(t, j)
FirstFence(t) ==
    CHOOSE i \in 1..Len(t) : t[i] = "F" /\ \A j \in 1..(i - 1) : t[j] # "F"

\* s.split("```")[0]
BeforeFence(s) == IF HasFence(s) THEN SubSeq(s, 1, FirstFence(s) - 1) ELSE s
\* t.split("```json")[1]
AfterJsonFence(t) ==
    LET rest == SubSeq(t, FirstJsonFence(t) + 2, Len(t))
    IN  IF HasJsonFence(rest) THEN SubSeq(rest, 1, FirstJsonFence(rest) - 1) ELSE rest
\* t.split("```")[1]
AfterFence(t) == BeforeFence(SubSeq(t, FirstFence(t) + 1, Len(t)))

extract_content(t) ==
    IF HasJsonFence(t) THEN BeforeFence(AfterJsonFence(t))
    ELSE IF HasFence(t) THEN BeforeFence(AfterFence(t))
    ELSE t

\* json.loads(content) returns a value exactly when content is one JSON text
json_loads_ok(content) == content = <<"obj">>

\* ---- researcher: queries and results -----------------------------------
\* lines 190-208: the queries the stage goes on to search
parse_search_queries(reply) ==
    LET content == extract_content(reply.toks)
        parsed == reply.payload
    IN  IF ~json_loads_ok(content) THEN <<query>>
        ELSE IF parsed.kind # "dict" THEN <<query>>
        ELSE IF parsed.search_queries.tag = "unsized" THEN <<query>>
        ELSE IF parsed.reasoning = "unsliceable" THEN <<query>>
        ELSE parsed.search_queries.list

\* variant: every extracted query is searched
first_queries_uncut(search_queries) == search_queries

\* search_queries[:3]
first_queries(search_queries) ==
    SubSeq(search_queries, 1, Min(Len(search_queries), QueryLimit))

\* outcome of one tavily_client.search call: an exception, or a response with
\* MaxHits results
SearchOutcomes == {[ok |-> FALSE, hits |-> 0], [ok |-> TRUE, hits |-> MaxHits]}
\* outcomes of the calls of one invocation: only its first call may raise
CallOutcomes(queries) ==
    {o \in [1..Len(queries) -> SearchOutcomes] : \A i \in 2..Len(queries) : o[i].ok}

\* variant: the first failing search call ends the loop over the queries
RECURSIVE tavily_results_stop_at_failure(_, _)
tavily_results_stop_at_failure(queries, outcomes) ==
    IF queries = <<>> \/ ~outcomes[1].ok THEN <<>>
    ELSE [k \in 1..outcomes[1].hits |->
              [query |-> queries[1], source |-> "tavily", n |-> k]]
         \o tavily_results_stop_at_failure(Tail(queries), Tail(outcomes))

RECURSIVE tavily_results(_, _)
tavily_results(queries, outcomes) ==
    IF queries = <<>> THEN <<>>
    ELSE (IF outcomes[1].ok
          THEN [k \in 1..outcomes[1].hits |->
                    [query |-> queries[1], source |-> "tavily", n |-> k]]
          ELSE <<>>)
         \o tavily_results(Tail(queries), Tail(outcomes))

\* variant: one placeholder for the whole invocation instead of one per query
mock_results_single(queries, iter) ==
    [i \in 1..Min(Len(queries), 1) |->
        [query |-> queries[i], source |-> "mock", n |-> iter]]

mock_results(queries, iter) ==
    [i \in 1..Len(queries) |-> [query |-> queries[i], source |-> "mock", n |-> iter]]

\* ---- analyzer: parsed values and the next step ------------------------
\* lines 318-331: (parsed, confidence, needs_more)
parse_analysis(reply) ==
    LET content == extract_content(reply.toks)
        analysis == reply.payload
    IN  IF json_loads_ok(content) /\ analysis.kind = "dict"
        THEN [parsed |-> TRUE,
              confidence |->
                  IF analysis.confidence.tag = "absent" THEN Num(MissingConfidence)
                  ELSE IF analysis.confidence.tag = "num" THEN Num(analysis.confidence.val)
                  ELSE NotANumber,
              needs_more |-> analysis.needs_more_research = "true"]
        ELSE [parsed |-> FALSE, confidence |-> Num(UnparsedConfidence),
              needs_more |-> FALSE]

\* variant: a confidence of exactly 70 still asks for more research
next_step_inclusive(needs_more, confidence, iter) ==
    IF needs_more /\ iter < MaxIterations THEN "more_research"
    ELSE IF ~confidence.num THEN "TypeError"
    ELSE IF confidence.val <= LowConfidence /\ iter < MaxIterations THEN "more_research"
    ELSE IF confidence.val >= HighConfidence THEN "write"
    ELSE "fact_check"

\* variant: the low-confidence branch forgets the iteration cap
next_step_uncapped(needs_more, confidence, iter) ==
    IF needs_more /\ iter < MaxIterations THEN "more_research"
    ELSE IF ~confidence.num THEN "TypeError"
    ELSE IF confidence.val < LowConfidence THEN "more_research"
    ELSE IF confidence.val >= HighConfidence THEN "write"
    ELSE "fact_check"

\* variant: the hint names the node to run instead of the key of the edge map
next_step_naming_node(needs_more, confidence, iter) ==
    IF needs_more /\ iter < MaxIterations THEN "researcher"
    ELSE IF ~confidence.num THEN "TypeError"
    ELSE IF confidence.val < LowConfidence /\ iter < MaxIterations THEN "researcher"
    ELSE IF confidence.val >= HighConfidence THEN "write"
    ELSE "fact_check"

\* variant: a confidence from 70 on goes straight to the writer
next_step_low_threshold(needs_more, confidence, iter) ==
    IF needs_more /\ iter < MaxIterations THEN "more_research"
    ELSE IF ~confidence.num THEN "TypeError"
    ELSE IF confidence.val < LowConfidence /\ iter < MaxIterations THEN "more_research"
    ELSE IF confidence.val >= LowConfidence THEN "write"
    ELSE "fact_check"

\* lines 347-355; comparing a value that is not a number raises TypeError
next_step(needs_more, confidence, iter) ==
    IF needs_more /\ iter < MaxIterations THEN "more_research"
    ELSE IF ~confidence.num THEN "TypeError"
    ELSE IF confidence.val < LowConfidence /\ iter < MaxIterations THEN "more_research"
    ELSE IF confidence.val >= HighConfidence THEN "write"
    ELSE "fact_check"

\* ---- the graph -----------------------------------------------------------
\* variant: the router after planning takes the declared "end" branch
route_after_planning_end == "end"

route_after_planning == "research"

\* variant: the router ignores the hint
route_after_analysis_ignoring_hint(next) == "write"

route_after_analysis(next) == next

\* variant: the planner is wired to the writer
planner_edges_to_writer == [research |-> "writer", end |-> "END"]

planner_edges == [research |-> "researcher", end |-> "END"]
analyzer_edges ==
    [fact_check |-> "fact_checker", more_research |-> "researcher", write |-> "writer"]
\* variant: the fact checker is wired to the visualizer, past the writer
edge_past_writer(from) ==
    CASE from = "researcher" -> "analyzer"
      [] from = "fact_checker" -> "visualizer"
      [] from = "writer" -> "visualizer"
      [] from = "visualizer" -> "END"

\* variant: the researcher is wired to the writer, past the analyzer
edge_past_analyzer(from) ==
    CASE from = "researcher" -> "writer"
      [] from = "fact_checker" -> "writer"
      [] from = "writer" -> "visualizer"
      [] from = "visualizer" -> "END"

\* variant: the graph ends after the writer
edge_without_visualizer(from) ==
    CASE from = "researcher" -> "analyzer"
      [] from = "fact_checker" -> "writer"
      [] from = "writer" -> "END"
      [] from = "visualizer" -> "END"

edge(from) ==
    CASE from = "researcher" -> "analyzer"
      [] from = "fact_checker" -> "writer"
      [] from = "writer" -> "visualizer"
      [] from = "visualizer" -> "END"

\* messages: Annotated[List, operator.add]: the engine adds the list a node
\* returns to the value of the channel. The node is handed the channel's own
\* list object and appends to it in place (state["messages"].append), so at
\* the time of the merge the channel already holds the returned list.
operator_add(a, b) == a \o b
add_messages(old, returned) == operator_add(returned, returned)

\* ---- one run of research() ---------------------------------------------
\* what no node writes: the orchestrator's client, and the other call
config == <<tavily_client, pending_calls, active, parked, session_state>>

\* lines 515-526: initial_state, handed to the graph whose entry point is planner
Init ==
    /\ tavily_client \in BOOLEAN
    /\ pc = "planner"
    /\ search_results = <<>>
    /\ analyzed_data = EmptyDict
    /\ fact_checks = <<>>
    /\ report = ""
    /\ visual_summary = EmptyDict
    /\ messages = <<>>
    /\ next_agent = "planner"
    /\ iteration = 0
    /\ confidence_score = Num(0)
    /\ result = <<>>
    /\ failure = "none"
    /\ trace = <<>>
    /\ every_low = TRUE
    /\ io = [stage |-> "none", completed |-> FALSE]
    /\ pending_calls = 0
    /\ active = 1
    /\ parked = <<>>
    /\ session_state = <<>>

\* variant: the invocation that raised is still counted as an iteration
raise_from_counted(stage, cause) ==
    /\ pc' = "raised"
    /\ failure' = cause
    /\ io' = [stage |-> stage, completed |-> FALSE]
    /\ iteration' = iteration + 1
    /\ UNCHANGED <<config, search_results, analyzed_data, fact_checks, report,
                   visual_summary, messages, next_agent, confidence_score,
                   result, trace, every_low>>

\* an exception leaves the node, graph.invoke and research(): nothing is returned
raise_from(stage, cause) ==
    /\ pc' = "raised"
    /\ failure' = cause
    /\ io' = [stage |-> stage, completed |-> FALSE]
    /\ UNCHANGED <<config, state, result, trace, every_low>>

\* variant: the failure is swallowed and the graph ends with the state so far
llm_raises_swallowed(stage) ==
    /\ pc' = "END"
    /\ failure' = "llm"
    /\ io' = [stage |-> stage, completed |-> FALSE]
    /\ UNCHANGED <<config, state, result, trace, every_low>>

\* self.llm.invoke(messages) raises
llm_raises(stage) == raise_from(stage, "llm")

\* variant: the planner also seeds the confidence with a default
planner_agent_seeding_confidence ==
    /\ pc = "planner"
    /\ \/ llm_raises("planner")
       \/ /\ messages' = add_messages(messages, messages \o <<[agent |-> "planner"]>>)
          /\ next_agent' = "researcher"
          /\ iteration' = 0
          /\ confidence_score' = Num(UnparsedConfidence)
          /\ pc' = planner_edges[route_after_planning]
          /\ trace' = Append(trace, "planner")
          /\ io' = [stage |-> "planner", completed |-> TRUE]
          /\ UNCHANGED <<config, search_results, analyzed_data, fact_checks, report,
                         visual_summary, result, failure, every_low>>

planner_agent ==
    /\ pc = "planner"
    /\ \/ llm_raises("planner")
       \/ /\ messages' = add_messages(messages, messages \o <<[agent |-> "planner"]>>)
          /\ next_agent' = "researcher"
          /\ iteration' = 0
          /\ pc' = planner_edges[route_after_planning]
          /\ trace' = Append(trace, "planner")
          /\ io' = [stage |-> "planner", completed |-> TRUE]
          /\ UNCHANGED <<config, search_results, analyzed_data, fact_checks, report,
                         visual_summary, confidence_score, result, failure, every_low>>

\* variant: the results of this invocation replace the accumulated ones
extend_results_replacing(old, all_results) == all_results

\* line 262: state["search_results"].extend(all_results)
extend_results(old, all_results) == old \o all_results

\* variant: an invocation that found nothing is not counted
incremented_on_results(iter, all_results) ==
    IF all_results = <<>> THEN iter ELSE iter + 1

\* line 270: state["iteration"] += 1, whatever all_results holds
incremented(iter, all_results) == iter + 1

\* variant: the record counts the queries that returned something
researcher_record_counting_queries(all_results) ==
    [agent |-> "researcher",
     results_found |-> Cardinality({all_results[i].query : i \in DOMAIN all_results})]

\* lines 263-268: the record the researcher appends to messages
researcher_record(all_results) ==
    [agent |-> "researcher", results_found |-> Len(all_results)]

\* what the code path of lines 190-208 saw in the reply
search_reply_class(reply) ==
    IF ~json_loads_ok(extract_content(reply.toks)) THEN "unparseable"
    ELSE IF reply.payload.kind # "dict" THEN "nondict"
    ELSE IF reply.payload.search_queries.tag = "unsized" THEN "unsized"
    ELSE IF reply.payload.reasoning = "unsliceable" THEN "bad_reasoning"
    ELSE IF reply.payload.search_queries.tag = "absent" THEN "no_field"
    ELSE IF reply.payload.search_queries.list = <<>> THEN "empty_list"
    ELSE "list"

\* <<list>> when the JSON text of the reply is an object whose search_queries
\* is a list, <<>> otherwise
offered_queries(reply) ==
    IF /\ json_loads_ok(extract_content(reply.toks))
       /\ reply.payload.kind = "dict"
       /\ reply.payload.search_queries.tag = "list"
    THEN <<reply.payload.search_queries.list>>
    ELSE <<>>

researcher_agent ==
    /\ pc = "researcher"
    /\ \/ llm_raises("researcher")
       \/ \E reply \in search_replies :
            LET search_queries == parse_search_queries(reply)
                queries == first_queries(search_queries)
            IN  \E outcomes \in (IF tavily_client THEN CallOutcomes(queries)
                                 ELSE {<<>>}) :
                  LET all_results == IF tavily_client
                                     THEN tavily_results(queries, outcomes)
                                     ELSE mock_results(queries, iteration)
                      record == researcher_record(all_results)
                  IN  /\ search_results' = extend_results(search_results, all_results)
                      /\ messages' = add_messages(messages, messages \o <<record>>)
                      /\ iteration' = incremented(iteration, all_results)
                      /\ pc' = edge("researcher")
                      /\ trace' = Append(trace, "researcher")
                      /\ io' = [stage |-> "researcher", completed |-> TRUE,
                                reply_class |-> search_reply_class(reply),
                                search_queries |-> search_queries,
                                outcomes |-> outcomes,
                                all_results |-> all_results,
                                appended |-> <<record>>]
                      /\ UNCHANGED <<config, analyzed_data, fact_checks, report,
                                     visual_summary, next_agent, confidence_score,
                                     result, failure, every_low>>

analyzer_agent ==
    /\ pc = "analyzer"
    /\ \/ llm_raises("analyzer")
       \/ \E reply \in analysis_replies :
            LET a == parse_analysis(reply)
                step == next_step(a.needs_more, a.confidence, iteration)
                field == IF a.parsed THEN reply.payload.confidence.tag ELSE "none"
                flag == IF a.parsed THEN reply.payload.needs_more_research ELSE "none"
            IN  IF step = "TypeError"
                THEN /\ pc' = "raised"
                     /\ failure' = "TypeError"
                     /\ io' = [stage |-> "analyzer", completed |-> FALSE,
                               parsed |-> a.parsed, confidence_field |-> field,
                               needs_field |-> flag, confidence |-> a.confidence,
                               needs_more |-> a.needs_more]
                     /\ UNCHANGED <<config, state, result, trace, every_low>>
                ELSE IF route_after_analysis(step) \notin DOMAIN analyzer_edges
                THEN raise_from("analyzer", "KeyError")
                ELSE /\ analyzed_data' = [analysis |-> "reply", confidence |-> a.confidence]
                     /\ confidence_score' = a.confidence
                     /\ messages' = add_messages(messages, messages \o <<[agent |-> "analyzer"]>>)
                     /\ next_agent' = step
                     /\ pc' = analyzer_edges[route_after_analysis(step)]
                     /\ trace' = Append(trace, "analyzer")
                     /\ every_low' = (every_low /\ a.confidence.num
                                        /\ a.confidence.val < LowConfidence)
                     /\ io' = [stage |-> "analyzer", completed |-> TRUE,
                               parsed |-> a.parsed, confidence_field |-> field,
                               needs_field |-> flag, confidence |-> a.confidence,
                               needs_more |-> a.needs_more]
                     /\ UNCHANGED <<config, search_results, fact_checks, report,
                                    visual_summary, iteration, result, failure>>

fact_checker_agent ==
    /\ pc = "fact_checker"
    /\ IF "analysis" \notin DOMAIN analyzed_data
       THEN raise_from("fact_checker", "KeyError")
       ELSE \/ llm_raises("fact_checker")
            \/ /\ fact_checks' = <<[checks |-> "reply"]>>
               /\ messages' = add_messages(messages, messages \o <<[agent |-> "fact_checker"]>>)
               /\ pc' = edge("fact_checker")
               /\ trace' = Append(trace, "fact_checker")
               /\ io' = [stage |-> "fact_checker", completed |-> TRUE]
               /\ UNCHANGED <<config, search_results, analyzed_data, report,
                              visual_summary, next_agent, iteration, confidence_score,
                              result, failure, every_low>>

\* len(response.content.split())
word_count(text) == IF text = "" THEN 0 ELSE 1

\* variant: an empty reply is replaced by a placeholder text
written_report_never_empty(text) == IF text = "" THEN "text" ELSE text

\* variant: the reply of the writer is not stored
written_report_unset(text) == ""

\* line 441: state["report"] = response.content
written_report(text) == text

writer_agent ==
    /\ pc = "writer"
    /\ IF "analysis" \notin DOMAIN analyzed_data
       THEN raise_from("writer", "KeyError")
       ELSE \/ llm_raises("writer")
            \/ \E text \in ReportTexts :
                 /\ report' = written_report(text)
                 /\ messages' = add_messages(messages,
                        messages \o <<[agent |-> "writer", word_count |-> word_count(text)]>>)
                 /\ pc' = edge("writer")
                 /\ trace' = Append(trace, "writer")
                 /\ io' = [stage |-> "writer", completed |-> TRUE, text |-> text]
                 /\ UNCHANGED <<config, search_results, analyzed_data, fact_checks,
                                visual_summary, next_agent, iteration, confidence_score,
                                result, failure, every_low>>

visualizer_agent ==
    /\ pc = "visualizer"
    /\ \/ llm_raises("visualizer")
       \/ /\ visual_summary' = [data |-> "reply"]
          /\ messages' = add_messages(messages, messages \o <<[agent |-> "visualizer"]>>)
          /\ pc' = edge("visualizer")
          /\ trace' = Append(trace, "visualizer")
          /\ io' = [stage |-> "visualizer", completed |-> TRUE]
          /\ UNCHANGED <<config, search_results, analyzed_data, fact_checks, report,
                         next_agent, iteration, confidence_score, result, failure,
                         every_low>>

\* lines 529-545: graph.invoke has returned final_state
research_return ==
    /\ pc = "END"
    /\ result' = <<[report |-> report,
                    confidence |-> confidence_score,
                    sources |-> Len(search_results),
                    iterations |-> iteration,
                    agents_used |-> Len(messages),
                    visual_summary |-> visual_summary,
                    search_results |-> search_results]>>
    /\ pc' = "returned"
    /\ UNCHANGED <<config, state, failure, trace, every_low, io>>

Next ==
    \/ planner_agent
    \/ researcher_agent
    \/ analyzer_agent
    \/ fact_checker_agent
    \/ writer_agent
    \/ visualizer_agent
    \/ research_return

Spec == Init /\ [][Next]_vars

\* the engine runs the next node, and research() returns, whenever it can
FairSpec == Spec /\ WF_vars(Next)

\* ---- two research() calls on one orchestrator ---------------------------
\* the variables of one research() call: its pc, its state dict, what it
\* returned or raised
frame ==
    [pc |-> pc, search_results |-> search_results, analyzed_data |-> analyzed_data,
     fact_checks |-> fact_checks, report |-> report,
     visual_summary |-> visual_summary, messages |-> messages,
     next_agent |-> next_agent, iteration |-> iteration,
     confidence_score |-> confidence_score, result |-> result,
     failure |-> failure, trace |-> trace, every_low |-> every_low, io |-> io]

\* variant: the new call is handed the list of results of the call before it
initial_state_sharing_results ==
    [search_results |-> search_results, analyzed_data |-> EmptyDict,
     fact_checks |-> <<>>, report |-> "", visual_summary |-> EmptyDict,
     messages |-> <<>>, next_agent |-> "planner", iteration |-> 0,
     confidence_score |-> Num(0)]

\* lines 515-526: the state dict research() builds for its own call
initial_state ==
    [search_results |-> <<>>, analyzed_data |-> EmptyDict,
     fact_checks |-> <<>>, report |-> "", visual_summary |-> EmptyDict,
     messages |-> <<>>, next_agent |-> "planner", iteration |-> 0,
     confidence_score |-> Num(0)]

\* the variables take the values of the call f
resume(f) ==
    /\ pc' = f.pc
    /\ search_results' = f.search_results
    /\ analyzed_data' = f.analyzed_data
    /\ fact_checks' = f.fact_checks
    /\ report' = f.report
    /\ visual_summary' = f.visual_summary
    /\ messages' = f.messages
    /\ next_agent' = f.next_agent
    /\ iteration' = f.iteration
    /\ confidence_score' = f.confidence_score
    /\ result' = f.result
    /\ failure' = f.failure
    /\ trace' = f.trace
    /\ every_low' = f.every_low
    /\ io' = f.io

\* the client calls research() again on the same orchestrator, after the
\* first call has ended or (from another thread) while it is between two nodes
research_again ==
    /\ pending_calls > 0
    /\ pending_calls' = pending_calls - 1
    /\ active' = active + 1
    /\ parked' = <<frame>>
    /\ resume(initial_state @@
              [pc |-> "planner", result |-> <<>>, failure |-> "none",
               trace |-> <<>>, every_low |-> TRUE,
               io |-> [stage |-> "none", completed |-> FALSE]])
    /\ UNCHANGED <<tavily_client, session_state>>

\* the other call is scheduled: the two calls run their nodes in any order
switch_run ==
    /\ parked # <<>>
    /\ active' = 3 - active
    /\ parked' = <<frame>>
    /\ resume(parked[1])
    /\ UNCHANGED <<tavily_client, pending_calls, session_state>>

TwoRunsInit ==
    /\ tavily_client = FALSE
    /\ pc = "planner"
    /\ search_results = <<>>
    /\ analyzed_data = EmptyDict
    /\ fact_checks = <<>>
    /\ report = ""
    /\ visual_summary = EmptyDict
    /\ messages = <<>>
    /\ next_agent = "planner"
    /\ iteration = 0
    /\ confidence_score = Num(0)
    /\ result = <<>>
    /\ failure = "none"
    /\ trace = <<>>
    /\ every_low = TRUE
    /\ io = [stage |-> "none", completed |-> FALSE]
    /\ pending_calls = 1
    /\ active = 1
    /\ parked = <<>>
    /\ session_state = <<>>

TwoRunsNext ==
    \/ Next
    \/ research_again
    \/ switch_run

TwoRunsSpec == TwoRunsInit /\ [][TwoRunsNext]_vars

\* ---- the web session (app.py) -------------------------------------------
\* A key is "" (empty text), "None", "absent" (not in st.session_state) or
\* the text of a key. Every action below is one run of the script, for one
\* event of the user, with the text the key field holds; st.rerun() runs the
\* script once more with the same text.
Keys == {"k1", "k2"}
KeyInputs == {""} \cup Keys
EnvKeys == {"", "kE"}
Truthy(k) == k \notin {"absent", "None", ""}

NoEvent == [name |-> "none", raised |-> FALSE, message |-> "", used |-> "", stored |-> ""]
Event(name) == [NoEvent EXCEPT !.name = name]

\* lines 80-85, and os.getenv("TAVILY_API_KEY")
new_session(env) ==
    [research_history |-> <<>>, current_research |-> <<>>, orchestrator |-> <<>>,
     tavily_api_key |-> "absent", last_tavily_key |-> "absent",
     skip_tavily |-> "absent", env |-> env, runs |-> 0, event |-> NoEvent]

\* line 90: the key the orchestrator is built with, "" for None (mock mode)
key_or_env(s) == IF Truthy(s.tavily_api_key) THEN s.tavily_api_key ELSE s.env

\* render_sidebar, lines 143-167
sidebar_keys(s, input) ==
    LET a == IF s.tavily_api_key = "absent"
             THEN [s EXCEPT !.tavily_api_key = s.env] ELSE s
        b == IF input # "" THEN [a EXCEPT !.tavily_api_key = input] ELSE a
    IN  IF Truthy(b.tavily_api_key)
        THEN [b EXCEPT !.orchestrator =
                            IF /\ b.last_tavily_key # "absent"
                               /\ b.last_tavily_key # b.tavily_api_key
                            THEN <<>> ELSE @,
                       !.last_tavily_key = b.tavily_api_key]
        ELSE b

\* line 458: main() shows the setup screen and returns
setup_shown(s) ==
    ~Truthy(s.tavily_api_key) /\ s.env = "" /\ s.skip_tavily # "True"

\* what is unchanged by the web session: the variables of a research() call
run_vars == <<tavily_client, pending_calls, active, parked, pc, state, result,
              failure, trace, every_low, io>>

\* the user edits the key field, or the script runs with no button pressed
edit_key ==
    \E input \in KeyInputs :
        /\ session_state' = [sidebar_keys(session_state, input)
                                EXCEPT !.event = Event("edit_key")]
        /\ UNCHANGED run_vars

\* lines 187-189
clear_history ==
    \E input \in KeyInputs :
        LET s == sidebar_keys(session_state, input)
        IN  /\ s.research_history # <<>>
            /\ session_state' =
                    [sidebar_keys([s EXCEPT !.research_history = <<>>], input)
                        EXCEPT !.event = Event("clear_history")]
            /\ UNCHANGED run_vars

\* lines 199-203
reset_config ==
    \E input \in KeyInputs :
        LET s == sidebar_keys(session_state, input)
        IN  /\ session_state' =
                    [sidebar_keys([s EXCEPT !.tavily_api_key = "",
                                            !.skip_tavily = "False",
                                            !.orchestrator = <<>>], input)
                        EXCEPT !.event = Event("reset_config")]
            /\ UNCHANGED run_vars

\* lines 205-210
show_setup ==
    \E input \in KeyInputs :
        LET s == sidebar_keys(session_state, input)
        IN  /\ session_state' =
                    [sidebar_keys([s EXCEPT !.tavily_api_key = "",
                                            !.skip_tavily = "absent"], input)
                        EXCEPT !.event = Event("show_setup")]
            /\ UNCHANGED run_vars

\* render_initial_setup, lines 318-321
skip_for_now ==
    \E input \in KeyInputs :
        LET s == sidebar_keys(session_state, input)
        IN  /\ setup_shown(s)
            /\ session_state' =
                    [sidebar_keys([s EXCEPT !.tavily_api_key = "None",
                                            !.skip_tavily = "True"], input)
                        EXCEPT !.event = Event("skip_for_now")]
            /\ UNCHANGED run_vars

\* lines 661-663
view_report ==
    \E input \in KeyInputs :
        LET s == sidebar_keys(session_state, input)
        IN  /\ ~setup_shown(s)
            /\ \E i \in DOMAIN s.research_history :
                  session_state' =
                    [sidebar_keys([s EXCEPT !.current_research =
                                                <<s.research_history[i]>>], input)
                        EXCEPT !.event = Event("view_report")]
            /\ UNCHANGED run_vars

\* run_research, lines 435-450: research() returns a Result, or raises an
\* exception e whose str(e) is some text or is empty
RunOutcomes ==
    {[raised |-> FALSE, message |-> ""],
     [raised |-> TRUE, message |-> "error"],
     [raised |-> TRUE, message |-> ""]}

\* lines 556-567: error is str(e) or None, and "if error" tests its truth
stored_after_run(s, outcome) ==
    IF outcome.raised /\ outcome.message # ""
    THEN s
    ELSE LET entry == [query |-> query,
                       results |-> IF outcome.raised THEN "None" ELSE "Result",
                       timestamp |-> s.runs + 1]
         IN  [s EXCEPT !.current_research = <<entry>>,
                       !.research_history = Append(@, entry)]

\* lines 543-570: the Start Research button
start_research ==
    \E input \in KeyInputs :
        LET s == sidebar_keys(session_state, input)
        IN  /\ ~setup_shown(s)
            /\ s.runs < MaxRuns
            /\ \/ /\ s.orchestrator = <<>>
                  /\ session_state' = [s EXCEPT !.event = Event("init_failed")]
               \/ \E outcome \in RunOutcomes :
                    LET built == IF s.orchestrator = <<>>
                                 THEN [s EXCEPT !.orchestrator =
                                            <<[tavily_api_key |-> key_or_env(s)]>>]
                                 ELSE s
                        after == stored_after_run(built, outcome)
                    IN  session_state' =
                            [after EXCEPT
                                !.runs = @ + 1,
                                !.event = [name |-> "research",
                                           raised |-> outcome.raised,
                                           message |-> outcome.message,
                                           used |-> built.orchestrator[1].tavily_api_key,
                                           stored |-> key_or_env(s)]]
            /\ UNCHANGED run_vars

SessionInit ==
    /\ tavily_client = FALSE
    /\ pc = "planner"
    /\ search_results = <<>>
    /\ analyzed_data = EmptyDict
    /\ fact_checks = <<>>
    /\ report = ""
    /\ visual_summary = EmptyDict
    /\ messages = <<>>
    /\ next_agent = "planner"
    /\ iteration = 0
    /\ confidence_score = Num(0)
    /\ result = <<>>
    /\ failure = "none"
    /\ trace = <<>>
    /\ every_low = TRUE
    /\ io = [stage |-> "none", completed |-> FALSE]
    /\ pending_calls = 0
    /\ active = 1
    /\ parked = <<>>
    /\ session_state \in {new_session(env) : env \in EnvKeys}

SessionNext ==
    \/ edit_key
    \/ clear_history
    \/ reset_config
    \/ show_setup
    \/ skip_for_now
    \/ view_report
    \/ start_research

SessionSpec == SessionInit /\ [][SessionNext]_vars

\* ---- the parser of the researcher as a function of the reply -----------
\* lines 190-208 applied to every reply, in a Search invocation at iteration
\* 0, 1 or 2
ParserInit ==
    /\ tavily_client = FALSE
    /\ pc = "parse"
    /\ search_results = <<>>
    /\ analyzed_data = EmptyDict
    /\ fact_checks = <<>>
    /\ report = ""
    /\ visual_summary = EmptyDict
    /\ messages = <<>>
    /\ next_agent = "researcher"
    /\ iteration \in 0..(MaxIterations - 1)
    /\ confidence_score = Num(0)
    /\ result = <<>>
    /\ failure = "none"
    /\ trace = <<>>
    /\ every_low = TRUE
    /\ io \in [stage : {"parser"}, completed : {FALSE}, reply : SearchReplies]
    /\ pending_calls = 0
    /\ active = 1
    /\ parked = <<>>
    /\ session_state = <<>>

parse_step ==
    /\ pc = "parse"
    /\ pc' = "parsed"
    /\ io' = [stage |-> "parser", completed |-> TRUE, reply |-> io.reply,
              search_queries |-> parse_search_queries(io.reply)]
    /\ UNCHANGED <<config, state, result, failure, trace, every_low>>

ParserSpec == ParserInit /\ [][parse_step]_vars

\* ---- the router as a function of its inputs ---------------------------
\* the state after an Analyze whose parsed values are io.needs_more and
\* io.confidence, for every flag, every confidence 0..100, every iteration 1..3
RouterInit ==
    /\ tavily_client = FALSE
    /\ pc = "route"
    /\ search_results = <<>>
    /\ analyzed_data = EmptyDict
    /\ fact_checks = <<>>
    /\ report = ""
    /\ visual_summary = EmptyDict
    /\ messages = <<>>
    /\ next_agent = "researcher"
    /\ iteration \in 1..MaxIterations
    /\ confidence_score = Num(0)
    /\ result = <<>>
    /\ failure = "none"
    /\ trace = <<>>
    /\ every_low = TRUE
    /\ io \in [stage : {"router"}, completed : {FALSE}, needs_more : BOOLEAN,
               confidence : {Num(c) : c \in 0..MaxConfidence}]
    /\ pending_calls = 0
    /\ active = 1
    /\ parked = <<>>
    /\ session_state = <<>>

route_step ==
    /\ pc = "route"
    /\ next_agent' = next_step(io.needs_more, io.confidence, iteration)
    /\ pc' = analyzer_edges[route_after_analysis(next_agent')]
    /\ confidence_score' = io.confidence
    /\ io' = [io EXCEPT !.completed = TRUE]
    /\ UNCHANGED <<config, search_results, analyzed_data, fact_checks, report,
                   visual_summary, messages, iteration, result, failure, trace,
                   every_low>>

RouterSpec == RouterInit /\ [][route_step]_vars

\* ---- properties ------------------------------------------------------------
Occurrences(s, x) == Cardinality({i \in 1..Len(s) : s[i] = x})
Completed(stage) == io.stage = stage /\ io.completed

\* C1: the routing decision after Analyze follows the precedence (1) flag set
\* and iteration < 3: more_research; (2) confidence < 70 and iteration < 3:
\* more_research; (3) confidence >= 80: write; (4) otherwise fact_check, for
\* every flag, every confidence 0..100 and every iteration 1..3.
C1_RoutingPrecedence ==
    Completed("router") =>
        LET needs == io.needs_more
            conf == io.confidence.val
            decision == route_after_analysis(next_agent)
        IN  /\ (needs /\ iteration < 3) => decision = "more_research"
            /\ (~(needs /\ iteration < 3) /\ conf < 70 /\ iteration < 3)
                   => decision = "more_research"
            /\ (~(needs /\ iteration < 3) /\ ~(conf < 70 /\ iteration < 3) /\ conf >= 80)
                   => decision = "write"
            /\ (~(needs /\ iteration < 3) /\ ~(conf < 70 /\ iteration < 3) /\ conf < 80)
                   => decision = "fact_check"
            /\ pc = analyzer_edges[decision]
C1_Witness ==
    /\ Completed("router")
    /\ ~io.needs_more /\ io.confidence.val = 60 /\ iteration = 3
    /\ next_agent = "fact_check"

\* C2: the Search stage executes at most 3 times in a run: iteration never
\* exceeds 3, and once iteration is 3 the routing after Analyze yields
\* fact_check or write, never more_research.
C2_IterationCap ==
    /\ iteration <= 3
    /\ Occurrences(trace, "researcher") <= 3
    /\ (Completed("analyzer") /\ iteration = 3) =>
           /\ route_after_analysis(next_agent) \in {"fact_check", "write"}
           /\ pc \in {"fact_checker", "writer"}
C2_Witness ==
    /\ Completed("analyzer") /\ iteration = 3
    /\ io.needs_more /\ io.confidence = Num(50)
    /\ pc = "fact_checker"

\* C3: every run in which each external call returns eventually reaches END
\* and research() returns, whatever the analysis outcomes are.
C3_RunReachesEnd == <>(pc = "returned" \/ failure = "llm")

\* C4: at every stage boundary iteration equals the number of records tagged
\* "researcher" in messages.
C4_IterationCountsResearcherRecords == iteration = Count(messages, "researcher")

\* C5: messages is exactly the sequence of stage tags of the stage invocations
\* completed so far, in execution order, one record per invocation.
C5_MessagesAreTheTrace ==
    /\ Len(messages) = Len(trace)
    /\ \A i \in 1..Len(messages) : messages[i].agent = trace[i]

\* C6: in a run where every Analyze yields confidence below 70 the stages run
\* as planner, (researcher, analyzer) x 3, fact_checker, writer, visualizer,
\* Result.iterations is 3 and messages holds one planner, three researcher,
\* three analyzer, one fact_checker, one writer and one visualizer record.
C6_LowConfidenceRun ==
    (pc = "returned" /\ every_low) =>
        /\ trace = <<"planner", "researcher", "analyzer", "researcher", "analyzer",
                     "researcher", "analyzer", "fact_checker", "writer", "visualizer">>
        /\ result[1].iterations = 3
        /\ Count(messages, "planner") = 1
        /\ Count(messages, "researcher") = 3
        /\ Count(messages, "analyzer") = 3
        /\ Count(messages, "fact_checker") = 1
        /\ Count(messages, "writer") = 1
        /\ Count(messages, "visualizer") = 1

\* C7: when the generation call of Plan, Analyze, FactChecker, Write or
\* Summarize fails the run ends at once: no stage runs afterwards, the failed
\* one included, and research() returns no Result.
GenerationFailed ==
    /\ failure = "llm"
    /\ io.stage \in {"planner", "analyzer", "fact_checker", "writer", "visualizer"}
C7_GenerationFailureAborts ==
    GenerationFailed => (pc = "raised" /\ result = <<>> /\ ~ENABLED Next)
C7_Witness == GenerationFailed /\ io.stage = "writer" /\ iteration = 2

\* C8: with a configured search service, when the search call of one query
\* fails the Search stage still completes: the results of the other queries
\* are appended to search_results, iteration grows by 1, the stage appends one
\* "researcher" record, and the run continues to Analyze.
SearchCallFailed ==
    /\ tavily_client
    /\ Completed("researcher")
    /\ \E i \in DOMAIN io.outcomes : ~io.outcomes[i].ok
C9_QueriesNonEmpty == Completed("researcher") => io.search_queries # <<>>

\* C10: when the Analyze reply has no usable confidence (it does not parse, or
\* parses without a confidence field) confidence is 75; when needs_more_research
\* is absent or the reply does not parse it is taken as false.
C10_AnalysisDefaults ==
    Completed("analyzer") =>
        /\ io.confidence_field \in {"none", "absent"} => confidence_score = Num(75)
        /\ io.needs_field \in {"none", "absent"} => ~io.needs_more

\* C11: a malformed reply to Search or Analyze never aborts the run: whenever
\* the generation call of one of these two stages has returned, the stage
\* completes without raising, a confidence that is not a number included.
C11_MalformedReplyNeverAborts ==
    (io.stage \in {"researcher", "analyzer"} /\ pc = "raised") => failure = "llm"

\* C12: in every reachable state the confidence is a number in 0..100,
\* whatever the generation service reports.
C12_ConfidenceInRange ==
    /\ confidence_score.num
    /\ confidence_score.val >= 0
    /\ confidence_score.val <= MaxConfidence

\* C13: the confidence starts at 0 and only an Analyze step changes it; Plan,
\* Search, the fact checker, Write and Summarize leave it as it is.
C13_OnlyAnalyzeSetsConfidence ==
    /\ confidence_score = Num(0)
    /\ [][ /\ confidence_score' # confidence_score => pc = "analyzer"
           /\ pc \in {"planner", "researcher", "fact_checker", "writer",
                      "visualizer", "END"}
                => confidence_score' = confidence_score ]_vars
C13_Witness ==
    /\ pc = "returned"
    /\ Occurrences(trace, "fact_checker") = 1
    /\ Occurrences(trace, "researcher") = 2
    /\ confidence_score = Num(UnparsedConfidence)

\* C14 as stated: in every reachable state the report is non-empty exactly
\* when Write has executed, the empty reply text included.
C14_ReportNonEmptyIffWritten ==
    (report # "") <=> (Occurrences(trace, "writer") > 0)

\* C14 amended: the report is non-empty only if Write has executed, and Write
\* stores the reply text as it is, so the report is empty after Write exactly
\* when the reply text was empty.
C14_ReportIsTheReplyText ==
    /\ report # "" => Occurrences(trace, "writer") > 0
    /\ Completed("writer") => report = io.text
    /\ Occurrences(trace, "writer") > 0 => report \in ReportTexts
C14_Witness ==
    /\ Completed("writer")
    /\ io.text = ""
    /\ report = ""
    /\ pc = "visualizer"

\* C15: across every step the length of search_results never decreases and
\* the entries already there stay where they are: only Search changes the
\* list, and only by appending at its end.
C15_SearchResultsAppendOnly ==
    [][ /\ Len(search_results') >= Len(search_results)
        /\ SubSeq(search_results', 1, Len(search_results)) = search_results
        /\ search_results' # search_results => pc = "researcher" ]_vars
C15_Witness ==
    /\ Completed("researcher")
    /\ iteration = 2
    /\ Len(io.all_results) > 0
    /\ Len(search_results) > Len(io.all_results)

\* the results the last Search invocation added are the tail of search_results
AddedBySearch ==
    SubSeq(search_results, Len(search_results) - Len(io.all_results) + 1,
           Len(search_results))
IsPlaceholderFor(r, q) == r.query = q /\ r.source = "mock"

\* C16 as stated: without a search backend a Search invocation calls no search
\* service and appends exactly one placeholder result per extracted query,
\* each tagged with its query.
C16_OnePlaceholderPerExtractedQuery ==
    (Completed("researcher") /\ ~tavily_client) =>
        /\ io.outcomes = <<>>
        /\ Len(AddedBySearch) = Len(io.search_queries)
        /\ \A i \in 1..Len(AddedBySearch) :
              IsPlaceholderFor(AddedBySearch[i], io.search_queries[i])

\* C16 amended: without a search backend a Search invocation calls no search
\* service and appends exactly one placeholder result for each of the first 3
\* extracted queries, each tagged with its query (two results for two queries).
C16_OnePlaceholderPerSearchedQuery ==
    (Completed("researcher") /\ ~tavily_client) =>
        /\ io.outcomes = <<>>
        /\ AddedBySearch = io.all_results
        /\ Len(AddedBySearch) = Min(QueryLimit, Len(io.search_queries))
        /\ \A i \in 1..Len(AddedBySearch) :
              IsPlaceholderFor(AddedBySearch[i], io.search_queries[i])
C16_Witness ==
    /\ Completed("researcher")
    /\ ~tavily_client
    /\ Len(io.search_queries) = 2
    /\ Len(AddedBySearch) = 2
    /\ AddedBySearch[1].query # AddedBySearch[2].query

\* C17: the result of a completed run reports iterations as the number of
\* Search executions, sources as the number of accumulated search results and
\* agents_used as the total number of stage executions.
C17_ResultCounts ==
    pc = "returned" =>
        /\ result[1].iterations = Occurrences(trace, "researcher")
        /\ result[1].sources = Len(search_results)
        /\ result[1].agents_used = Len(trace)

\* the stage-to-stage transitions of the graph
GraphEdges ==
    {<<"planner", "researcher">>, <<"researcher", "analyzer">>,
     <<"analyzer", "fact_checker">>, <<"analyzer", "researcher">>,
     <<"analyzer", "writer">>, <<"fact_checker", "writer">>,
     <<"writer", "visualizer">>}

\* C19: every transition from one stage to the next follows the fixed graph:
\* Plan to Search, Search to Analyze, Analyze to the fact checker, Search or
\* Write, the fact checker to Write, Write to Summarize, Summarize to the end;
\* Plan is the first stage and executes exactly once.
C19_TransitionsFollowGraph ==
    /\ \A i \in 1..(Len(trace) - 1) : <<trace[i], trace[i + 1]>> \in GraphEdges
    /\ trace # <<>> => trace[1] = "planner"
    /\ Occurrences(trace, "planner") <= 1
    /\ (trace # <<>> /\ pc \notin {"raised", "END", "returned"})
            => <<trace[Len(trace)], pc>> \in GraphEdges
    /\ pc \in {"END", "returned"}
            => (trace[Len(trace)] = "visualizer" /\ Occurrences(trace, "planner") = 1)
    /\ (trace # <<>> /\ trace[Len(trace)] = "visualizer")
            => pc \in {"END", "returned"}
C19_Witness ==
    /\ pc = "returned"
    /\ Occurrences(trace, "fact_checker") = 1
    /\ Occurrences(trace, "researcher") = MaxIterations
    /\ trace[Len(trace)] = "visualizer"

\* C20: the routing decision after Plan is research for every run state: the
\* declared end branch is never taken, so no run reaches the end of the graph
\* without having executed Search.
C20_PlanAlwaysRoutesToResearch ==
    /\ route_after_planning = "research"
    /\ Completed("planner") => pc = "researcher"
    /\ pc \in {"END", "returned"} => Occurrences(trace, "researcher") >= 1
C20_Witness ==
    /\ Completed("planner")
    /\ pc = "researcher"
    /\ trace = <<"planner">>

\* what a call's state holds is what its own stages produced
OwnData(f) ==
    /\ f.iteration = Occurrences(f.trace, "researcher")
    /\ Len(f.search_results) <= f.iteration * QueryLimit * MaxHits
    /\ \A i \in DOMAIN f.search_results :
          f.search_results[i].source = "mock" => f.search_results[i].n < f.iteration
    /\ Len(f.messages) = 2 ^ (Len(f.trace) + 1) - 2
    /\ Occurrences(f.trace, "analyzer") = 0 => f.confidence_score = Num(0)
    /\ f.report # "" => Occurrences(f.trace, "writer") > 0

\* C18: two research() calls on one orchestrator, one after the other or
\* interleaved, each work on their own state: a call starts from a state of
\* its own, no node of one call changes the search_results, messages,
\* iteration, confidence or report of the other, what a call holds comes from
\* its own stages, and no step changes a field of the orchestrator.
C18_RunsAreIsolated ==
    /\ [](OwnData(frame) /\ (parked # <<>> => OwnData(parked[1])))
    /\ [][ /\ tavily_client' = tavily_client
           /\ active' = active => parked' = parked
           /\ active' # active => parked' = <<frame>>
           /\ (active' # active /\ pending_calls' = pending_calls)
                => frame' = parked[1]
           /\ pending_calls' # pending_calls
                => /\ pc' = "planner"
                   /\ search_results' = <<>>
                   /\ messages' = <<>>
                   /\ iteration' = 0
                   /\ confidence_score' = Num(0)
                   /\ report' = "" ]_vars
C18_Witness ==
    /\ parked # <<>>
    /\ active = 2
    /\ pc = "returned"
    /\ parked[1].pc = "returned"
    /\ iteration = 1
    /\ parked[1].iteration = MaxIterations
    /\ Len(search_results) < Len(parked[1].search_results)
    /\ report # parked[1].report
    /\ confidence_score # parked[1].confidence_score

\* C21: every Search invocation increases iteration by exactly 1, whether it
\* obtained no query or result, one or many, and no other stage changes
\* iteration.
C21_SearchIncrementsIteration ==
    [][ /\ (pc = "researcher" /\ pc' # "raised") => iteration' = iteration + 1
        /\ iteration' # iteration => pc = "researcher" ]_vars
C21_Witness ==
    /\ Completed("researcher")
    /\ io.search_queries = <<>>
    /\ io.all_results = <<>>
    /\ iteration = 2
    /\ search_results # <<>>

C23_ResultsFoundCountsAdded ==
    [][ (pc = "researcher" /\ pc' # "raised") =>
            /\ Len(io'.appended) = 1
            /\ io'.appended[1].agent = "researcher"
            /\ messages'[Len(messages')] = io'.appended[1]
            /\ Len(search_results')
                   = Len(search_results) + io'.appended[1].results_found ]_vars
C23_Witness ==
    /\ Completed("researcher")
    /\ tavily_client
    /\ io.appended[1].results_found = QueryLimit * MaxHits
    /\ Len(search_results) > QueryLimit * MaxHits

\* C24: a Search invocation searches at most 3 queries even when the reply
\* lists more: at most 3 search calls, one for each of the first 3 queries,
\* and without a backend min(3, number of extracted queries) mock results.
C24_AtMostThreeQueries ==
    Completed("researcher") =>
        LET searched == Min(QueryLimit, Len(io.search_queries))
        IN  /\ Len(io.outcomes) <= QueryLimit
            /\ tavily_client => Len(io.outcomes) = searched
            /\ ~tavily_client => Len(io.all_results) = searched
            /\ \A k \in DOMAIN io.all_results :
                  \E i \in 1..searched : io.all_results[k].query = io.search_queries[i]
C24_Witness ==
    /\ Completed("researcher")
    /\ tavily_client
    /\ Len(io.search_queries) = MaxQueries
    /\ Len(io.outcomes) = QueryLimit
    /\ Len(io.all_results) = QueryLimit * MaxHits

\* C25: the parser of Search, given a reply with a fenced block that holds a
\* search_queries list, yields exactly that list; given a reply that does not
\* parse, it yields the list of the original query alone.
C25_ParserExtractsFencedList ==
    Completed("parser") =>
        /\ (HasFence(io.reply.toks) /\ offered_queries(io.reply) # <<>>)
                => io.search_queries = offered_queries(io.reply)[1]
        /\ ~json_loads_ok(extract_content(io.reply.toks))
                => io.search_queries = <<query>>

\* C26: every fact checker invocation appends exactly one entry to
\* fact_checks, keeping the entries already there, and appends exactly one
\* "fact_checker" record to messages.
C26_FactCheckerAppendsOnce ==
    [][ (pc = "fact_checker" /\ pc' # "raised") =>
            /\ Len(fact_checks') = Len(fact_checks) + 1
            /\ SubSeq(fact_checks', 1, Len(fact_checks)) = fact_checks
            /\ messages' = Append(messages, [agent |-> "fact_checker"]) ]_vars

\* C27: report is empty in every state before Write executes, Write executes
\* at most once in a run and sets report to the returned text unchanged, and
\* no later stage changes report.
C27_ReportWrittenOnce ==
    /\ [](Occurrences(trace, "writer") = 0 => report = "")
    /\ [](Occurrences(trace, "writer") <= 1)
    /\ [][ /\ (pc = "writer" /\ pc' # "raised") => report' = io'.text
           /\ report' # report => pc = "writer"
           /\ pc \in {"visualizer", "END"} => report' = report ]_vars
C27_Witness ==
    /\ pc = "returned"
    /\ report = "text"
    /\ result[1].report = "text"
    /\ Occurrences(trace, "writer") = 1
    /\ Occurrences(trace, "visualizer") = 1
    /\ Occurrences(trace, "fact_checker") = 1

\* C28: visual_summary is empty in every state before Summarize executes;
\* Summarize executes exactly once in a completed run, only after Write, and
\* no stage executes after it.
C28_SummarizeIsLast ==
    /\ Occurrences(trace, "visualizer") = 0 => visual_summary = EmptyDict
    /\ pc \in {"END", "returned"} => Occurrences(trace, "visualizer") = 1
    /\ Occurrences(trace, "visualizer") > 0 =>
            /\ Occurrences(trace, "visualizer") = 1
            /\ trace[Len(trace)] = "visualizer"
            /\ trace[Len(trace) - 1] = "writer"
            /\ visual_summary # EmptyDict
            /\ pc \in {"END", "returned"}
C28_Witness ==
    /\ pc = "END"
    /\ visual_summary # EmptyDict
    /\ trace[Len(trace)] = "visualizer"
    /\ Occurrences(trace, "researcher") = 2
    /\ report = ""

\* C29: whenever the router after Analyze is evaluated, the hint it returns is
\* fact_check, more_research or write, never "researcher" (left by Plan) or
\* "planner" (the initial value), so the lookup in the edge map succeeds.
C29_HintIsAnEdgeKey ==
    /\ failure # "KeyError"
    /\ Completed("analyzer") =>
            /\ route_after_analysis(next_agent)
                    \in {"fact_check", "more_research", "write"}
            /\ route_after_analysis(next_agent) \in DOMAIN analyzer_edges
    /\ Occurrences(trace, "analyzer") > 0 => next_agent \notin {"researcher", "planner"}
C29_Witness ==
    /\ Completed("analyzer")
    /\ next_agent = "more_research"
    /\ pc = "researcher"
    /\ iteration = 2

\* C30: in every completed run the fact checker has executed (fact_checks is
\* non-empty) exactly when the confidence of the Result is below 80; it
\* executes at most once, so fact_checks never holds more than one entry.
C30_FactCheckIffBelowHigh ==
    /\ Occurrences(trace, "fact_checker") <= 1
    /\ Len(fact_checks) <= 1
    /\ fact_checks # <<>> <=> Occurrences(trace, "fact_checker") = 1
    /\ pc = "returned" =>
            /\ result[1].confidence.num
            /\ fact_checks # <<>> <=> result[1].confidence.val < HighConfidence
C30_Witness ==
    /\ pc = "returned"
    /\ Len(fact_checks) = 1
    /\ result[1].confidence = Num(50)
    /\ iteration = MaxIterations

\* C31: the fact checker and the writer run only after the analyzer has run
\* at least once, so the analysis text they read from the state is defined
\* whenever they run: no lookup of it fails.
C31_AnalysisDefinedWhenRead ==
    /\ pc \in {"fact_checker", "writer"} =>
            /\ Occurrences(trace, "analyzer") >= 1
            /\ "analysis" \in DOMAIN analyzed_data
    /\ io.stage \in {"fact_checker", "writer"} =>
            /\ Occurrences(trace, "analyzer") >= 1
            /\ "analysis" \in DOMAIN analyzed_data
            /\ failure \in {"none", "llm"}
C31_Witness ==
    /\ Completed("writer")
    /\ Occurrences(trace, "fact_checker") = 1
    /\ Occurrences(trace, "analyzer") = 1
    /\ analyzed_data.analysis = "reply"

\* C32: the stage invoked after every researcher execution is the analyzer,
\* and the analyzer executes only directly after the researcher, so at every
\* routing decision and at completion the analyzer has executed as often as
\* the researcher, between 1 and 3 times.
C32_AnalyzeFollowsSearch ==
    /\ \A i \in 1..Len(trace) :
          /\ (trace[i] = "researcher" /\ i < Len(trace)) => trace[i + 1] = "analyzer"
          /\ trace[i] = "analyzer" => (i > 1 /\ trace[i - 1] = "researcher")
    /\ (trace # <<>> /\ trace[Len(trace)] = "researcher")
            => (pc = "analyzer" \/ (pc = "raised" /\ io.stage = "analyzer"))
    /\ (Completed("analyzer") \/ pc \in {"END", "returned"}) =>
            /\ Occurrences(trace, "analyzer") = Occurrences(trace, "researcher")
            /\ Occurrences(trace, "analyzer") \in 1..MaxIterations
C32_Witness ==
    /\ pc = "returned"
    /\ Occurrences(trace, "researcher") = MaxIterations
    /\ Occurrences(trace, "analyzer") = MaxIterations
    /\ Occurrences(trace, "fact_checker") = 0

\* C33: when the generation call at the start of a researcher invocation
\* fails, nothing recovers it: the invocation adds nothing to search_results,
\* leaves iteration as it is, appends no record, and the run stops there
\* without the analyzer being run.
C33_SearchGenerationFailure ==
    /\ [][ (pc = "researcher" /\ pc' = "raised") =>
              /\ failure' = "llm"
              /\ UNCHANGED <<search_results, iteration, messages, trace>> ]_vars
    /\ []((io.stage = "researcher" /\ failure = "llm") =>
              /\ pc = "raised"
              /\ result = <<>>
              /\ iteration = Occurrences(trace, "researcher")
              /\ Occurrences(trace, "analyzer") = Occurrences(trace, "researcher")
              /\ ~ENABLED Next)
C33_Witness ==
    /\ io.stage = "researcher"
    /\ failure = "llm"
    /\ pc = "raised"
    /\ iteration = 1
    /\ search_results # <<>>

IsPrefix(a, b) == Len(a) <= Len(b) /\ SubSeq(b, 1, Len(a)) = a

\* C34: in the web session a research run that fails leaves research_history
\* and current_research unchanged, a run that succeeds appends exactly one
\* entry to research_history and makes it current_research, and entries are
\* removed from the history only by Clear History.
C34_HistoryFollowsRuns ==
    [][ LET old == session_state
            new == session_state'
        IN  /\ (new.event.name = "research" /\ new.event.raised) =>
                    /\ new.research_history = old.research_history
                    /\ new.current_research = old.current_research
            /\ (new.event.name = "research" /\ ~new.event.raised) =>
                    /\ Len(new.research_history) = Len(old.research_history) + 1
                    /\ IsPrefix(old.research_history, new.research_history)
                    /\ new.current_research
                            = <<new.research_history[Len(new.research_history)]>>
            /\ ~IsPrefix(old.research_history, new.research_history) =>
                    new.event.name = "clear_history" ]_vars

\* C35: in the web session a research run never uses a cached orchestrator
\* built with a key (or with none, in mock mode) other than the key stored at
\* the time of the run, after any sequence of key entries, skips and runs.
C35_RunUsesStoredKey ==
    (session_state.event.name = "research")
        => session_state.event.used = session_state.event.stored

====
